---------------------------- MODULE Spec2Model ----------------------------
(***************************************************************************)
(* A model of src/src/CubicSpline.cpp: the process-wide SplineSolutionCache *)
(* (two pools of solved diagonals), CubicSpline (solve_straight,            *)
(* solve_looped, check_minimum_size, set_results, evaluate,                 *)
(* evaluate_derivative) and the N-dimensional bundle CubicSplineN with its  *)
(* script binding LunaCubicSplineN.                                         *)
(*                                                                         *)
(* Numbers.  The code computes in float.  The model computes in rationals  *)
(* <<num, den>> (den > 0, lowest terms), exact as long as the result fits  *)
(* the 32-bit integers of TLC; an operation whose exact result does not   *)
(* fit first rounds its operands to a denominator below 2*Precision (a     *)
(* finite-precision stand-in for float rounding).  With the spline sizes   *)
(* of the specifications Spec and SpecEval every operation is exact; only  *)
(* the large diagonals of SpecCache are rounded.                            *)
(*                                                                         *)
(* Vectors are sequences; the element the code calls v[i] is At(v, i), the *)
(* (i+1)-th element of the sequence.                                       *)
(***************************************************************************)
EXTENDS Integers, Sequences, FiniteSets, TLC

VARIABLES
    m_splines,          \* CubicSplineN::m_splines: sequence of CubicSpline
    loop,               \* CubicSplineN::loop
    m_dirty,            \* CubicSplineN::m_dirty
    straight_diagonals, \* SplineSolutionCache::straight_diagonals, front first
    looped_diagonals,   \* SplineSolutionCache::looped_diagonals, front first
    used,               \* history: per pool, the sizes asked of it, latest first
    oob,                \* history: an element outside 0..size-1 was accessed
    halted,             \* the process was terminated (crash or failed ASSERT_M)
    last,               \* the last call made and what it returned
    ops                 \* number of calls made so far

vars == <<m_splines, loop, m_dirty, straight_diagonals, looped_diagonals,
          used, oob, halted, last, ops>>

-----------------------------------------------------------------------------
(* Bounds of the model. *)

\* Largest point count a bundle is resized to.
MaxPoints == 3
\* Largest dimension a bundle is redimensioned to.
MaxDim == 2
\* Number of calls made on the bundle in one behaviour of Spec.
MaxOps == 5
\* Largest point count whose diagonals SpecCache asks for.
MaxSize == 19
\* SpecCache asks a pool for a new size only while the other pool holds at
\* most this many entries.
MaxMinor == 1
\* Denominators above this are rounded when an exact result does not fit.
Precision == 4096

\* Magnitude below which the integers of TLC multiply without overflow.
IntLimit == 2^30

-----------------------------------------------------------------------------
(* float arithmetic *)

RECURSIVE GCD(_, _)
GCD(x, y) == IF y = 0 THEN x ELSE GCD(y, x % y)

IAbs(x) == IF x < 0 THEN -x ELSE x

IMin(x, y) == IF x < y THEN x ELSE y

\* x * y is below IntLimit in magnitude.
Fits(x, y) == x = 0 \/ y = 0 \/ IAbs(x) <= IntLimit \div IAbs(y)

\* The rational n/d in lowest terms, d # 0.
Norm(n, d) ==
    LET g == GCD(IAbs(n), IAbs(d))
        s == IF d < 0 THEN -1 ELSE 1
    IN  <<s * (n \div g), s * (d \div g)>>

F(n) == <<n, 1>>

Zero == F(0)
One == F(1)
Half == <<1, 2>>

\* Rounding to a denominator in Precision .. 2*Precision-1.
Round(x) ==
    IF x[2] <= Precision THEN x
    ELSE LET k == x[2] \div Precision
         IN  Norm(x[1] \div k, x[2] \div k)

MulExact(x, y) ==
    LET g1 == GCD(IAbs(x[1]), y[2])
        g2 == GCD(IAbs(y[1]), x[2])
    IN  <<(x[1] \div g1) * (y[1] \div g2), (x[2] \div g2) * (y[2] \div g1)>>

MulFits(x, y) ==
    LET g1 == GCD(IAbs(x[1]), y[2])
        g2 == GCD(IAbs(y[1]), x[2])
    IN  /\ Fits(x[1] \div g1, y[1] \div g2)
        /\ Fits(x[2] \div g2, y[2] \div g1)

FMul(x, y) ==
    IF MulFits(x, y) THEN MulExact(x, y) ELSE MulExact(Round(x), Round(y))

AddExact(x, y) ==
    LET g == GCD(x[2], y[2])
    IN  Norm(x[1] * (y[2] \div g) + y[1] * (x[2] \div g), (x[2] \div g) * y[2])

AddFits(x, y) ==
    LET g == GCD(x[2], y[2])
    IN  /\ Fits(2 * (x[2] \div g), y[2])
        /\ Fits(2 * x[1], y[2] \div g)
        /\ Fits(2 * y[1], x[2] \div g)

FAdd(x, y) ==
    IF AddFits(x, y) THEN AddExact(x, y) ELSE AddExact(Round(x), Round(y))

FNeg(x) == <<-x[1], x[2]>>

FSub(x, y) == FAdd(x, FNeg(y))

\* 1/x for x # 0 (the code never divides by a zero diagonal).
FRecip(x) == IF x[1] < 0 THEN <<-x[2], -x[1]>> ELSE <<x[2], x[1]>>

FDiv(x, y) == FMul(x, FRecip(y))

FAbs(x) == <<IAbs(x[1]), x[2]>>

\* x < y.  Cross products are compared; both fit for the values of the model.
FLess(x, y) == x[1] * y[2] < y[1] * x[2]

FLeq(x, y) == ~FLess(y, x)

\* static_cast<int>(t): truncation towards zero.
Trunc(t) == IF t[1] < 0 THEN -((-t[1]) \div t[2]) ELSE t[1] \div t[2]

-----------------------------------------------------------------------------
(* vectors *)

At(v, i) == v[i + 1]

Put(v, i, x) == [v EXCEPT ![i + 1] = x]

\* vector<float> v(n): n value-initialised floats.
Zeros(n) == [i \in 1..n |-> Zero]

-----------------------------------------------------------------------------
(* SplineSolutionCache *)

solution_cache_limit == 16

\* find_in_cache comparing sizes with <= instead of ==: the first entry at
\* least as long as out is copied.
find_in_cache_at_least(cache, out) ==
    LET hits == {k \in 1..Len(cache) : Len(out) <= Len(cache[k])}
        first == CHOOSE k \in hits : \A j \in hits : k <= j
    IN  IF hits = {}
        THEN [found |-> FALSE, out |-> out]
        ELSE [found |-> TRUE,
              out |-> [i \in 1..Len(out) |-> cache[first][i]]]

\* find_in_cache: the first entry of the list with the size of out is copied
\* into out.  The list itself is not changed.
find_in_cache(cache, out) ==
    LET hits == {k \in 1..Len(cache) : Len(cache[k]) = Len(out)}
        first == CHOOSE k \in hits : \A j \in hits : k <= j
    IN  IF hits = {}
        THEN [found |-> FALSE, out |-> out]
        ELSE [found |-> TRUE,
              out |-> [i \in 1..Len(out) |-> cache[first][i]]]

\* add_to_cache testing the limit with > instead of >=.
add_to_cache_late_pop(cache, out) ==
    <<out>> \o (IF Len(cache) > solution_cache_limit
                THEN SubSeq(cache, 1, Len(cache) - 1)
                ELSE cache)

\* add_to_cache: pop_back when the limit is reached, then push_front.
add_to_cache(cache, out) ==
    <<out>> \o (IF Len(cache) >= solution_cache_limit
                THEN SubSeq(cache, 1, Len(cache) - 1)
                ELSE cache)

\* SplineSolutionCache::prep_inner: out[i] = 4 for 1 <= i < last.
cache_prep_inner(lst, out) ==
    [i \in 1..Len(out) |-> IF 1 <= i - 1 /\ i - 1 < lst THEN F(4) ELSE out[i]]

\* for(i = 1; i < last-1; ++i) diagonals[i+1] -= 1 / diagonals[i];
RECURSIVE straight_diag_loop(_, _, _)
straight_diag_loop(d, i, lst) ==
    IF i < lst - 1
    THEN straight_diag_loop(
             Put(d, i + 1, FSub(At(d, i + 1), FDiv(One, At(d, i)))), i + 1, lst)
    ELSE d

\* The miss path of solve_diagonals_straight (lines 75-85).
compute_diagonals_straight(diagonals) ==
    LET lst == Len(diagonals)
        d0 == Put(diagonals, 0, F(2))
        d1 == cache_prep_inner(lst - 1, d0)
        d2 == Put(d1, lst - 1, F(2))
        d3 == Put(d2, 1, FSub(At(d2, 1), Half))
    IN  straight_diag_loop(d3, 1, lst)

\* solve_diagonals_straight: [cache |-> the pool afterwards, out |-> diagonals].
solve_diagonals_straight(cache, diagonals) ==
    LET f == find_in_cache(cache, diagonals)
        d == compute_diagonals_straight(diagonals)
    IN  IF f.found
        THEN [cache |-> cache, out |-> f.out]
        ELSE [cache |-> add_to_cache(cache, d), out |-> d]

\* The loop of solve_diagonals_looped; st = [d, cedge, redge].
RECURSIVE looped_diag_loop(_, _, _, _)
looped_diag_loop(st, i, stop, end) ==
    IF i < stop
    THEN LET diag_recip == FDiv(One, At(st.d, i))
             d1 == Put(st.d, i + 1, FSub(At(st.d, i + 1), diag_recip))
             next_redge == FSub(Zero, FMul(st.redge, diag_recip))
             next_cedge == FSub(Zero, FMul(st.cedge, diag_recip))
             d2 == Put(d1, end,
                       FSub(At(d1, end),
                            FMul(st.redge, FDiv(st.cedge, At(d1, i)))))
         IN  looped_diag_loop([d |-> d2, cedge |-> next_cedge,
                               redge |-> next_redge], i + 1, stop, end)
    ELSE st

\* The last step of solve_diagonals_looped's elimination, on the state the
\* loop left.
looped_diag_end(st, stop, end) ==
    Put(st.d, end,
        FSub(At(st.d, end),
             FMul(st.redge, FDiv(FSub(One, st.cedge), At(st.d, stop)))))

\* The miss path of solve_diagonals_looped (lines 96-124).
compute_diagonals_looped(diagonals) ==
    LET lst == Len(diagonals)
        d0 == Put(diagonals, 0, F(4))
        d1 == cache_prep_inner(lst, d0)
        end == lst - 1
        stop == end - 1
    IN  looped_diag_end(
            looped_diag_loop([d |-> d1, cedge |-> One, redge |-> One],
                             0, stop, end),
            stop, end)

\* solve_diagonals_looped: [cache |-> the pool afterwards, out |-> diagonals].
solve_diagonals_looped(cache, diagonals) ==
    LET f == find_in_cache(cache, diagonals)
        d == compute_diagonals_looped(diagonals)
    IN  IF f.found
        THEN [cache |-> cache, out |-> f.out]
        ELSE [cache |-> add_to_cache(cache, d), out |-> d]

\* History of a pool: the size n becomes the most recently used one.
Touch(u, n) == <<n>> \o SelectSeq(u, LAMBDA s : s # n)


-----------------------------------------------------------------------------
(* CubicSpline *)

\* SplinePoint, value-initialised by vector::resize.
NewPoint == [a |-> Zero, b |-> Zero, c |-> Zero, d |-> Zero]

\* CubicSpline, default-constructed by vector::resize in redimension.
NewSpline == [m_points |-> <<>>, m_spatial_extent |-> Zero]

Size(sp) == Len(sp.m_points)

\* m_points[i].a
A(sp, i) == At(sp.m_points, i).a

loop_space_difference(a, b, spatial_extent) ==
    LET plus_diff == FSub(a, FAdd(b, spatial_extent))
        minus_diff == FSub(a, FSub(b, spatial_extent))
    IN  IF FLess(FAbs(plus_diff), FAbs(minus_diff))
        THEN plus_diff
        ELSE minus_diff

\* m_points[i].b = m_points[i].c = m_points[i].d = 0
ZeroCoefficients(pt) == [pt EXCEPT !.b = Zero, !.c = Zero, !.d = Zero]

\* The loop of check_minimum_size: i runs from 1 to size-1.
check_minimum_size_clear(sp) ==
    [sp EXCEPT !.m_points =
        [k \in 1..Size(sp) |->
            IF k - 1 >= 1 THEN ZeroCoefficients(sp.m_points[k])
            ELSE sp.m_points[k]]]

\* check_minimum_size: [done |-> its return value, sp |-> the spline
\* afterwards, oob |-> an element outside the vector was written].  With no
\* point the write to m_points[0] falls outside the vector and leaves its
\* elements as they are.
check_minimum_size(sp) ==
    LET lst == Size(sp)
    IN  IF lst < 2
        THEN [done |-> TRUE,
              sp |-> [sp EXCEPT !.m_points =
                        [k \in 1..lst |-> ZeroCoefficients(sp.m_points[k])]],
              oob |-> ~(0 < lst)]
        ELSE IF lst = 2
        THEN [done |-> TRUE,
              sp |-> [sp EXCEPT !.m_points =
                        << [a |-> A(sp, 0),
                            b |-> loop_space_difference(
                                      A(sp, 1), A(sp, 0), sp.m_spatial_extent),
                            c |-> Zero, d |-> Zero],
                           [a |-> A(sp, 1),
                            b |-> loop_space_difference(
                                      A(sp, 0), A(sp, 1), sp.m_spatial_extent),
                            c |-> Zero, d |-> Zero] >>],
              oob |-> FALSE]
        ELSE [done |-> \A i \in 1..(lst - 1) : A(sp, i) = A(sp, 0),
              sp |-> check_minimum_size_clear(sp),
              oob |-> FALSE]

\* CubicSpline::prep_inner: results[i] for 1 <= i < last-1.
spline_prep_inner(sp, lst, results) ==
    [k \in 1..Len(results) |->
        IF 1 <= k - 1 /\ k - 1 < lst - 1
        THEN FMul(F(3), loop_space_difference(
                 A(sp, k), A(sp, k - 2), sp.m_spatial_extent))
        ELSE results[k]]

\* set_results with c = 3*diff - 2*results[i] + results[next].
set_results_wrong_c(sp, lst, diagonals, results) ==
    LET r == [k \in 1..Len(results) |->
                IF k - 1 < lst THEN FDiv(results[k], diagonals[k])
                ELSE results[k]]
    IN  [sp EXCEPT !.m_points =
            [k \in 1..Size(sp) |->
                IF k - 1 < lst
                THEN LET i == k - 1
                         next == (i + 1) % lst
                         diff == loop_space_difference(
                                     A(sp, next), A(sp, i), sp.m_spatial_extent)
                     IN  [a |-> A(sp, i),
                          b |-> At(r, i),
                          c |-> FAdd(FSub(FMul(F(3), diff),
                                          FMul(F(2), At(r, i))), At(r, next)),
                          d |-> FAdd(FAdd(FMul(F(2), FNeg(diff)), At(r, i)),
                                     At(r, next))]
                ELSE sp.m_points[k]]]

\* set_results: results[i] /= diagonals[i], then b, c, d of every point.
\* UNNAN replaces a NaN by 0; no value of the model is a NaN.
set_results(sp, lst, diagonals, results) ==
    LET r == [k \in 1..Len(results) |->
                IF k - 1 < lst THEN FDiv(results[k], diagonals[k])
                ELSE results[k]]
    IN  [sp EXCEPT !.m_points =
            [k \in 1..Size(sp) |->
                IF k - 1 < lst
                THEN LET i == k - 1
                         next == (i + 1) % lst
                         diff == loop_space_difference(
                                     A(sp, next), A(sp, i), sp.m_spatial_extent)
                     IN  [a |-> A(sp, i),
                          b |-> At(r, i),
                          c |-> FSub(FSub(FMul(F(3), diff),
                                          FMul(F(2), At(r, i))), At(r, next)),
                          d |-> FAdd(FAdd(FMul(F(2), FNeg(diff)), At(r, i)),
                                     At(r, next))]
                ELSE sp.m_points[k]]]

\* for(i = 1; i < last-1; ++i) results[i] -= results[i-1] * (1 / diagonals[i]);
RECURSIVE straight_results_loop(_, _, _, _)
straight_results_loop(r, d, i, lst) ==
    IF i < lst - 1
    THEN straight_results_loop(
             Put(r, i, FSub(At(r, i),
                            FMul(At(r, i - 1), FDiv(One, At(d, i))))),
             d, i + 1, lst)
    ELSE r

\* The right-hand side solve_straight builds before the elimination
\* (lines 211-217): results[0], prep_inner, results[last-1].
straight_rhs(s) ==
    LET lst == Size(s)
        r0 == Put(Zeros(lst), 0, FMul(F(3), FSub(A(s, 1), A(s, 0))))
        r1 == spline_prep_inner(s, lst, r0)
    IN  Put(r1, lst - 1,
            FMul(F(3), loop_space_difference(
                A(s, lst - 1), A(s, lst - 2), s.m_spatial_extent)))

\* The elimination of solve_straight on the right-hand side (lines 228-233):
\* results[1] -= results[0] * .5f, then the loop.
straight_eliminate(results, diagonals) ==
    straight_results_loop(
        Put(results, 1, FSub(At(results, 1), FMul(At(results, 0), Half))),
        diagonals, 1, Len(results))

\* solve_straight after check_minimum_size returned false: s is the spline
\* as check_minimum_size left it.
solve_straight_system(s, cache) ==
    LET sol == solve_diagonals_straight(cache, Zeros(Size(s)))
    IN  [sp |-> set_results(s, Size(s), sol.out,
                            straight_eliminate(straight_rhs(s), sol.out)),
         cache |-> sol.cache, asked |-> TRUE, oob |-> FALSE]

\* solve_straight on a spline, given the straight pool:
\* [sp, cache, asked (the cache was asked for diagonals), oob].
solve_straight(sp, cache) ==
    LET chk == check_minimum_size(sp)
    IN  IF chk.done
        THEN [sp |-> chk.sp, cache |-> cache, asked |-> FALSE, oob |-> chk.oob]
        ELSE solve_straight_system(chk.sp, cache)

\* The loop of solve_looped; st = [r, cedge, redge].
RECURSIVE looped_results_loop(_, _, _, _, _)
looped_results_loop(st, d, i, stop, end) ==
    IF i < stop
    THEN LET diag_recip == FDiv(One, At(d, i))
             next_redge == FSub(Zero, FMul(st.redge, diag_recip))
             r1 == Put(st.r, i + 1,
                       FSub(At(st.r, i + 1), FMul(At(st.r, i), diag_recip)))
             next_cedge == FSub(Zero, FMul(st.cedge, diag_recip))
             r2 == Put(r1, end,
                       FSub(At(r1, end),
                            FMul(At(r1, i), FDiv(st.redge, At(d, i)))))
         IN  looped_results_loop([r |-> r2, cedge |-> next_cedge,
                                  redge |-> next_redge], d, i + 1, stop, end)
    ELSE st

\* The last step of solve_looped's elimination, on the state the loop left.
looped_results_end(st, diagonals, stop, end) ==
    Put(st.r, end,
        FSub(At(st.r, end),
             FMul(At(st.r, stop),
                  FDiv(FSub(One, st.redge), At(diagonals, stop)))))

\* solve_looped after check_minimum_size returned false: s is the spline as
\* check_minimum_size left it.
solve_looped_system(s, cache) ==
    LET lst == Size(s)
        sol == solve_diagonals_looped(cache, Zeros(lst))
        r0 == Put(Zeros(lst), 0,
                  FMul(F(3), loop_space_difference(
                      A(s, 1), A(s, lst - 1), s.m_spatial_extent)))
        r1 == spline_prep_inner(s, lst, r0)
        r2 == Put(r1, lst - 1,
                  FMul(F(3), loop_space_difference(
                      A(s, 0), A(s, lst - 2), s.m_spatial_extent)))
        end == lst - 1
        stop == end - 1
        st == looped_results_loop([r |-> r2, cedge |-> One, redge |-> One],
                                  sol.out, 0, stop, end)
    IN  [sp |-> set_results(s, lst, sol.out,
                            looped_results_end(st, sol.out, stop, end)),
         cache |-> sol.cache, asked |-> TRUE, oob |-> FALSE]

\* solve_looped on a spline, given the looped pool: [sp, cache, asked, oob].
solve_looped(sp, cache) ==
    LET chk == check_minimum_size(sp)
    IN  IF chk.done
        THEN [sp |-> chk.sp, cache |-> cache, asked |-> FALSE, oob |-> chk.oob]
        ELSE solve_looped_system(chk.sp, cache)

\* wrap_t with each while replaced by an if.
wrap_t_once(t, max_t) ==
    IF FLeq(max_t, t) THEN FSub(t, max_t)
    ELSE IF FLess(t, Zero) THEN FAdd(t, max_t)
    ELSE t

\* while(t >= max_t) { t -= max_t; }  while(t < 0) { t += max_t; }
RECURSIVE wrap_t(_, _)
wrap_t(t, max_t) ==
    IF FLeq(max_t, t) THEN wrap_t(FSub(t, max_t), max_t)
    ELSE IF FLess(t, Zero) THEN wrap_t(FAdd(t, max_t), max_t)
    ELSE t

\* clamp_index taking the point after flort.
clamp_index_next(flort, size) ==
    IF flort < 0 THEN size - 1 ELSE IMin(flort + 1, size - 1)

\* min(static_cast<size_t>(flort), m_points.size()-1): a negative flort
\* converts to a size_t above every size.
clamp_index(flort, size) == IF flort < 0 THEN size - 1 ELSE IMin(flort, size - 1)

\* The cubic of point p at tfrac.
cubic_at(pt, tfrac) ==
    LET tsq == FMul(tfrac, tfrac)
        tcub == FMul(tsq, tfrac)
    IN  FAdd(FAdd(FAdd(pt.a, FMul(pt.b, tfrac)), FMul(pt.c, tsq)),
             FMul(pt.d, tcub))

\* CubicSpline::evaluate(t, loop)
evaluate(sp, t, lp) ==
    LET size == Size(sp)
        tw == IF lp THEN wrap_t(t, F(size)) ELSE t
        flort == Trunc(tw)
        p == clamp_index(flort, size)
    IN  IF size = 0 THEN Zero
        ELSE IF ~lp /\ flort <= 0 THEN A(sp, 0)
        ELSE IF ~lp /\ flort >= size - 1 THEN A(sp, size - 1)
        ELSE cubic_at(At(sp.m_points, p), FSub(tw, F(flort)))

\* The derivative of the cubic of point p at tfrac.
cubic_derivative_at(pt, tfrac) ==
    LET tsq == FMul(tfrac, tfrac)
    IN  FAdd(FAdd(pt.b, FMul(FMul(F(2), pt.c), tfrac)),
             FMul(FMul(F(3), pt.d), tsq))

\* CubicSpline::evaluate_derivative(t, loop)
evaluate_derivative(sp, t, lp) ==
    LET size == Size(sp)
        tw == IF lp THEN wrap_t(t, F(size)) ELSE t
        flort == Trunc(tw)
        p == clamp_index(flort, size)
    IN  IF size = 0 THEN Zero
        ELSE IF ~lp /\ (flort < 0 \/ flort >= size - 1) THEN Zero
        ELSE cubic_derivative_at(At(sp.m_points, p), FSub(tw, F(flort)))

\* CubicSpline::resize: vector::resize keeps the first s points and
\* value-initialises the new ones.
spline_resize(sp, s) ==
    [sp EXCEPT !.m_points =
        [k \in 1..s |-> IF k <= Size(sp) THEN sp.m_points[k] ELSE NewPoint]]

-----------------------------------------------------------------------------
(* CubicSplineN *)

\* Inputs of the calls.
Values == {F(0), F(1)}
CoefTriples == {<<F(1), F(1), F(1)>>, <<F(0), F(1), F(-2)>>}
Extents == {F(0), F(2)}

Dimension == Len(m_splines)

\* A vector of the bundle's dimension holding x in every dimension.
Vec(x) == [n \in 1..Dimension |-> x]

\* CubicSplineN::size()
BundleSize == IF Dimension > 0 THEN Size(m_splines[1]) ELSE 0

\* The members of an assert-guarded loop that are reached: all of them, or
\* those before the first member whose ASSERT_M(i < m_points.size()) fails.
FirstBad(i) ==
    LET bad == {n \in 1..Dimension : ~(i < Size(m_splines[n]))}
    IN  IF bad = {} THEN 0 ELSE CHOOSE n \in bad : \A k \in bad : n <= k

Reached(i, n) == FirstBad(i) = 0 \/ n < FirstBad(i)

\* State of a solve in progress: the members, both pools and the histories.
SolveState ==
    [splines |-> m_splines, straight |-> straight_diagonals,
     looped |-> looped_diagonals, used |-> used, oob |-> oob]

\* The solve state after member k was solved in mode lp with result r.
member_solved(st, k, lp, r) ==
    [splines |-> [st.splines EXCEPT ![k] = r.sp],
     straight |-> IF lp THEN st.straight ELSE r.cache,
     looped |-> IF lp THEN r.cache ELSE st.looped,
     used |-> IF ~r.asked THEN st.used
              ELSE IF lp
              THEN [st.used EXCEPT !.looped = Touch(@, Size(st.splines[k]))]
              ELSE [st.used EXCEPT !.straight = Touch(@, Size(st.splines[k]))],
     oob |-> st.oob \/ r.oob]

\* solve_member with the two branches of if(loop) exchanged.
solve_member_swapped(st, k, lp) ==
    member_solved(st, k, ~lp,
                  IF lp THEN solve_straight(st.splines[k], st.straight)
                  ELSE solve_looped(st.splines[k], st.looped))

\* spline->solve_looped() or spline->solve_straight() on member k.
solve_member(st, k, lp) ==
    member_solved(st, k, lp,
                  IF lp THEN solve_looped(st.splines[k], st.looped)
                  ELSE solve_straight(st.splines[k], st.straight))

\* The loop of CubicSplineN::solve over members k..upto.
RECURSIVE solve_members(_, _, _, _)
solve_members(st, k, upto, lp) ==
    IF k <= upto
    THEN solve_members(solve_member(st, k, lp), k + 1, upto, lp)
    ELSE st

Step == ~halted /\ ops < MaxOps /\ ops' = ops + 1

\* CubicSplineN::CubicSplineN(): no member, not looped, dirty.
Init ==
    /\ m_splines = <<>>
    /\ loop = FALSE
    /\ m_dirty = TRUE
    /\ straight_diagonals = <<>>
    /\ looped_diagonals = <<>>
    /\ used = [straight |-> <<>>, looped |-> <<>>]
    /\ oob = FALSE
    /\ halted = FALSE
    /\ last = [op |-> "new"]
    /\ ops = 0

\* CubicSplineN::solve().  A member without points makes check_minimum_size
\* write m_points[0] of an empty vector: undefined behaviour, after which the
\* call either goes on (the write fell outside every element) or the process
\* is terminated at that member (crash > 0).
Solve ==
    /\ Step
    /\ IF ~m_dirty
       THEN UNCHANGED <<m_splines, loop, m_dirty, straight_diagonals,
                        looped_diagonals, used, oob, halted, last>>
       ELSE \E crash \in {0} \cup {k \in 1..Dimension : Size(m_splines[k]) = 0} :
              /\ halted' = (crash > 0)
              /\ m_dirty' = IF crash > 0 THEN m_dirty ELSE FALSE
              /\ UNCHANGED <<loop, last>>
              /\ \E st \in {solve_members(SolveState, 1,
                                          IF crash = 0 THEN Dimension ELSE crash,
                                          loop)} :
                    /\ m_splines' = st.splines
                    /\ straight_diagonals' = st.straight
                    /\ looped_diagonals' = st.looped
                    /\ used' = st.used
                    /\ oob' = st.oob

\* A failed ASSERT_M: the process is terminated, nothing else changes.
AssertFails ==
    /\ halted' = TRUE
    /\ UNCHANGED <<m_splines, m_dirty>>

\* CubicSplineN::set_point(i, v): ASSERT_M on the length of v, then every
\* member's set_point(i, v[n]), each with its own ASSERT_M on i.
SetPoint(i, v) ==
    /\ Step
    /\ IF Len(v) # Dimension
       THEN AssertFails
       ELSE /\ m_splines' =
                 [n \in 1..Dimension |->
                     IF Reached(i, n)
                     THEN [m_splines[n] EXCEPT !.m_points[i + 1].a = v[n]]
                     ELSE m_splines[n]]
            /\ halted' = (FirstBad(i) > 0)
            /\ m_dirty' = IF FirstBad(i) > 0 THEN m_dirty ELSE TRUE
    /\ UNCHANGED <<loop, straight_diagonals, looped_diagonals, used, oob, last>>

\* The ASSERT_M of set_coefficients and get_coefficients on the lengths.
SameDimension(b, c, d) ==
    Len(b) = Len(c) /\ Len(c) = Len(d) /\ Len(d) = Dimension

\* CubicSplineN::set_coefficients(i, b, c, d)
SetCoefficients(i, b, c, d) ==
    /\ Step
    /\ IF ~SameDimension(b, c, d)
       THEN AssertFails
       ELSE /\ m_splines' =
                 [n \in 1..Dimension |->
                     IF Reached(i, n)
                     THEN [m_splines[n] EXCEPT !.m_points[i + 1].b = b[n],
                                               !.m_points[i + 1].c = c[n],
                                               !.m_points[i + 1].d = d[n]]
                     ELSE m_splines[n]]
            /\ halted' = (FirstBad(i) > 0)
            /\ m_dirty' = IF FirstBad(i) > 0 THEN m_dirty ELSE TRUE
    /\ UNCHANGED <<loop, straight_diagonals, looped_diagonals, used, oob, last>>

\* CubicSplineN::get_coefficients(i, b, c, d): the same ASSERT_Ms, and the
\* bundle is only read.
GetCoefficients(i, b, c, d) ==
    /\ Step
    /\ halted' = (~SameDimension(b, c, d) \/ FirstBad(i) > 0)
    /\ UNCHANGED <<m_splines, m_dirty, loop, straight_diagonals,
                   looped_diagonals, used, oob, last>>

\* CubicSplineN::set_spatial_extent(i, extent)
SetSpatialExtent(i, extent) ==
    /\ Step
    /\ IF ~(i < Dimension)
       THEN AssertFails
       ELSE /\ m_splines' = [m_splines EXCEPT ![i + 1].m_spatial_extent = extent]
            /\ m_dirty' = TRUE
            /\ halted' = halted
    /\ UNCHANGED <<loop, straight_diagonals, looped_diagonals, used, oob, last>>

\* CubicSplineN::get_spatial_extent(i): the same ASSERT_M, and the bundle is
\* only read.
GetSpatialExtent(i) ==
    /\ Step
    /\ halted' = ~(i < Dimension)
    /\ UNCHANGED <<m_splines, m_dirty, loop, straight_diagonals,
                   looped_diagonals, used, oob, last>>

\* CubicSplineN::resize(s)
Resize(s) ==
    /\ Step
    /\ m_splines' = [n \in 1..Dimension |-> spline_resize(m_splines[n], s)]
    /\ m_dirty' = TRUE
    /\ UNCHANGED <<loop, straight_diagonals, looped_diagonals, used, oob,
                   halted, last>>

\* CubicSplineN::redimension(d): m_splines.resize(d) keeps the first d
\* members and default-constructs the new ones.
Redimension(d) ==
    /\ Step
    /\ m_splines' = [n \in 1..d |->
                        IF n <= Dimension THEN m_splines[n] ELSE NewSpline]
    /\ m_dirty' = TRUE
    /\ UNCHANGED <<loop, straight_diagonals, looped_diagonals, used, oob,
                   halted, last>>

\* LunaCubicSplineN::set_loop: p->loop = b, and nothing else.
SetLoop(b) ==
    /\ Step
    /\ loop' = b
    /\ UNCHANGED <<m_splines, m_dirty, straight_diagonals, looped_diagonals,
                   used, oob, halted, last>>

Next ==
    \/ Solve
    \/ \E i \in 0..(BundleSize - 1), x \in Values :
          SetPoint(i, Vec(x))
    \/ \E i \in 0..(BundleSize - 1), k \in CoefTriples :
          SetCoefficients(i, Vec(k[1]), Vec(k[2]), Vec(k[3]))
    \/ \E i \in 0..(Dimension - 1), extent \in Extents :
          SetSpatialExtent(i, extent)
    \/ \E s \in 0..MaxPoints : Resize(s)
    \/ \E d \in 0..MaxDim : Redimension(d)
    \/ \E b \in BOOLEAN : SetLoop(b)

Spec == Init /\ [][Next]_vars

-----------------------------------------------------------------------------
(* SpecArgs: the bundle called with any index and any vector length, from   *)
(* C++ and through the script binding                                       *)

\* Point and dimension indices passed, in and out of range.
Indices == 0..MaxPoints

\* Lengths of the vectors and tables passed.
Lengths == 0..(MaxDim + 1)

\* A vector of length l holding x.
VecN(l, x) == [n \in 1..l |-> x]

\* LunaCubicSplineN::get_element_table_from_stack: every element of the
\* table is pushed, then 0 is pushed while the vector is shorter than limit.
get_element_table_from_stack(tbl, limit) ==
    tbl \o [n \in 1..(IF limit > Len(tbl) THEN limit - Len(tbl) ELSE 0) |-> Zero]

\* luaL_error: the call returns an error to the script; the bundle is as it
\* was.
LuaError ==
    /\ Step
    /\ last' = [op |-> "luaL_error", at |-> ops]
    /\ UNCHANGED <<m_splines, loop, m_dirty, straight_diagonals,
                   looped_diagonals, used, oob, halted>>

\* LunaCubicSplineN::set_point: point_index, then set_point_from_stack.
LuaSetPoint(i, tbl) ==
    IF ~(i < BundleSize)
    THEN LuaError
    ELSE SetPoint(i, get_element_table_from_stack(tbl, Dimension))

\* LunaCubicSplineN::set_coefficients: point_index, then
\* set_coefficients_from_stack.
LuaSetCoefficients(i, b, c, d) ==
    IF ~(i < BundleSize)
    THEN LuaError
    ELSE SetCoefficients(i, get_element_table_from_stack(b, Dimension),
                         get_element_table_from_stack(c, Dimension),
                         get_element_table_from_stack(d, Dimension))

\* LunaCubicSplineN::set_spatial_extent: dimension_index, then
\* set_spatial_extent.
LuaSetSpatialExtent(i, extent) ==
    IF ~(i < Dimension)
    THEN LuaError
    ELSE SetSpatialExtent(i, extent)

NextArgs ==
    \/ \E d \in 0..MaxDim : Redimension(d)
    \/ \E s \in 0..MaxPoints : Resize(s)
    \/ \E i \in Indices, l \in Lengths, x \in Values :
          SetPoint(i, VecN(l, x))
    \/ \E i \in Indices, l \in Lengths, k \in CoefTriples :
          SetCoefficients(i, VecN(l, k[1]), VecN(l, k[2]), VecN(l, k[3]))
    \/ \E i \in Indices, l \in Lengths :
          GetCoefficients(i, Zeros(l), Zeros(l), Zeros(l))
    \/ \E i \in 0..MaxDim, extent \in Extents :
          SetSpatialExtent(i, extent)
    \/ \E i \in 0..MaxDim : GetSpatialExtent(i)
    \/ \E i \in Indices, l \in Lengths, x \in Values :
          LuaSetPoint(i, VecN(l, x))
    \/ \E i \in Indices, l \in Lengths, k \in CoefTriples :
          LuaSetCoefficients(i, VecN(l, k[1]), VecN(l, k[2]), VecN(l, k[3]))
    \/ \E i \in 0..MaxDim, extent \in Extents :
          LuaSetSpatialExtent(i, extent)

SpecArgs == Init /\ [][NextArgs]_vars

-----------------------------------------------------------------------------
(* SpecCache: the solution cache asked for diagonals of many sizes *)

\* Smallest point count that reaches the cache: check_minimum_size settles
\* every spline of fewer than 3 points itself.
MinSolved == 3

SeqMax(q) == IF q = <<>> THEN MinSolved - 1
             ELSE CHOOSE x \in {q[k] : k \in 1..Len(q)} :
                    \A j \in 1..Len(q) : q[j] <= x

\* Sizes asked of a pool: the size of its newest entry, the size of its
\* oldest entry, and (while the other pool is small) the next size never
\* asked of it before.
CacheRequests(cache, u, other) ==
    (IF cache = <<>> THEN {} ELSE {Len(cache[1]), Len(cache[Len(cache)])})
    \cup {n \in {SeqMax(u) + 1} : n <= MaxSize /\ Len(other) <= MaxMinor}

\* solution_cache.solve_diagonals_straight(diagonals) for a spline of n
\* points, as solve_straight calls it.
CacheSolveStraight(n) ==
    LET r == solve_diagonals_straight(straight_diagonals, Zeros(n))
    IN  /\ straight_diagonals' = r.cache
        /\ used' = [used EXCEPT !.straight = Touch(@, n)]
        /\ last' = [op |-> "solve_diagonals_straight", n |-> n,
                    hit |-> find_in_cache(straight_diagonals, Zeros(n)).found,
                    ret |-> r.out]
        /\ UNCHANGED <<m_splines, loop, m_dirty, looped_diagonals, oob,
                       halted, ops>>

\* solution_cache.solve_diagonals_looped(diagonals) for a spline of n points,
\* as solve_looped calls it.
CacheSolveLooped(n) ==
    LET r == solve_diagonals_looped(looped_diagonals, Zeros(n))
    IN  /\ looped_diagonals' = r.cache
        /\ used' = [used EXCEPT !.looped = Touch(@, n)]
        /\ last' = [op |-> "solve_diagonals_looped", n |-> n,
                    hit |-> find_in_cache(looped_diagonals, Zeros(n)).found,
                    ret |-> r.out]
        /\ UNCHANGED <<m_splines, loop, m_dirty, straight_diagonals, oob,
                       halted, ops>>

NextCache ==
    \/ \E n \in CacheRequests(straight_diagonals, used.straight,
                               looped_diagonals) :
          CacheSolveStraight(n)
    \/ \E n \in CacheRequests(looped_diagonals, used.looped,
                               straight_diagonals) :
          CacheSolveLooped(n)

SpecCache == Init /\ [][NextCache]_vars

-----------------------------------------------------------------------------
(* SpecEval: evaluation of a one-dimensional bundle holding any points *)

\* Control points with stored coefficients.
EvalPoints ==
    {[a |-> x, b |-> k[1], c |-> k[2], d |-> k[3]] :
        x \in Values, k \in CoefTriples}

\* Parameter values: the halves from -1 to MaxPoints + 1.
EvalTs == {Norm(k, 2) : k \in (0 - 2)..(2 * MaxPoints + 2)}

InitEval ==
    /\ \E n \in 0..MaxPoints : \E pts \in [1..n -> EvalPoints] :
          m_splines = <<[m_points |-> pts, m_spatial_extent |-> Zero]>>
    /\ loop \in BOOLEAN
    /\ m_dirty = TRUE
    /\ straight_diagonals = <<>>
    /\ looped_diagonals = <<>>
    /\ used = [straight |-> <<>>, looped |-> <<>>]
    /\ oob = FALSE
    /\ halted = FALSE
    /\ last = [op |-> "new"]
    /\ ops = 0

\* CubicSplineN::evaluate(t, v): v receives every member's evaluate(t, loop).
\* The call is const; one call is made on each bundle drawn.
Evaluate(t) ==
    /\ last.op = "new"
    /\ last' = [op |-> "evaluate", t |-> t,
                ret |-> [n \in 1..Dimension |-> evaluate(m_splines[n], t, loop)]]
    /\ UNCHANGED <<m_splines, loop, m_dirty, straight_diagonals,
                   looped_diagonals, used, oob, halted, ops>>

\* CubicSplineN::evaluate_derivative(t, v)
EvaluateDerivative(t) ==
    /\ last.op = "new"
    /\ last' = [op |-> "evaluate_derivative", t |-> t,
                ret |-> [n \in 1..Dimension |->
                            evaluate_derivative(m_splines[n], t, loop)]]
    /\ UNCHANGED <<m_splines, loop, m_dirty, straight_diagonals,
                   looped_diagonals, used, oob, halted, ops>>

NextEval ==
    \/ \E t \in EvalTs : Evaluate(t)
    \/ \E t \in EvalTs : EvaluateDerivative(t)

SpecEval == InitEval /\ [][NextEval]_vars

-----------------------------------------------------------------------------
(* Claims about evaluate, checked under SpecEval *)

\* The member evaluated in SpecEval.
Sp1 == m_splines[1]

\* C1: for a spline of n >= 1 points holding any coefficients,
\* evaluate(i, loop = false) at an integer 0 <= i < n returns exactly the
\* value a of point i.
C1_EvaluateAtKnotReturnsValue ==
    (last.op = "evaluate" /\ ~loop) =>
        \A i \in 0..(Size(Sp1) - 1) :
            last.t = F(i) => last.ret[1] = A(Sp1, i)

\* C1 happens: an interior knot whose point holds non-zero coefficients and
\* whose neighbours hold another value was evaluated.
C1_Witness ==
    /\ last.op = "evaluate" /\ ~loop
    /\ Size(Sp1) = 3 /\ last.t = F(1)
    /\ A(Sp1, 0) = F(0) /\ A(Sp1, 1) = F(1) /\ A(Sp1, 2) = F(0)
    /\ At(Sp1.m_points, 1).b = F(1)
    /\ last.ret[1] = F(1)

\* What C6 says evaluate(t, loop = false) returns for n >= 1 points.
C6_Expected(sp, t) ==
    IF FLeq(t, Zero) THEN A(sp, 0)
    ELSE IF FLeq(F(Size(sp) - 1), t) THEN A(sp, Size(sp) - 1)
    ELSE cubic_at(At(sp.m_points, Trunc(t)), FSub(t, F(Trunc(t))))

\* C6: evaluate(t, loop = false) returns the first value only for t <= 0,
\* the last value only for t >= n-1, and for every 0 < t < n-1 the cubic
\* a + b*f + c*f^2 + d*f^3 of point floor(t) at f = t - floor(t).
C6_ClampsOnlyOutsideTheKnots ==
    (last.op = "evaluate" /\ ~loop /\ Size(Sp1) >= 1) =>
        last.ret[1] = C6_Expected(Sp1, last.t)

\* C12: a looped evaluate of a spline of n >= 1 points has period n:
\* evaluate(t, loop = true) equals evaluate(t + n, loop = true) for every t,
\* positive or negative (stated for the t evaluated and for t - n).
C12_LoopedEvaluateHasPeriodN ==
    (last.op = "evaluate" /\ loop /\ Size(Sp1) >= 1) =>
        /\ last.ret[1] = evaluate(Sp1, FAdd(last.t, F(Size(Sp1))), TRUE)
        /\ evaluate(Sp1, FSub(last.t, F(Size(Sp1))), TRUE) = last.ret[1]

\* C12 happens: a looped spline of 3 points was evaluated at t = -1/2, which
\* wraps into the last segment, where the cubic has non-zero coefficients.
C12_Witness ==
    /\ last.op = "evaluate" /\ loop
    /\ Size(Sp1) = 3 /\ last.t = FNeg(Half)
    /\ At(Sp1.m_points, 2).b = F(1)
    /\ last.ret[1] = cubic_at(At(Sp1.m_points, 2), Half)
    /\ last.ret[1] # A(Sp1, 2)

-----------------------------------------------------------------------------
(* Claims about the solution cache, checked under SpecCache *)

\* The sizes a pool returns as hits.
Cached(cache) == {Len(cache[k]) : k \in 1..Len(cache)}

\* The up-to-16 sizes most recently asked of a pool.
MostRecent(u) == {u[k] : k \in 1..IMin(Len(u), solution_cache_limit)}

\* C2: each pool evicts least-recently-used: the sizes retrievable as hits
\* are exactly the up-to-16 most recently used distinct sizes (so that an
\* insert into a full pool evicts the size whose last hit or insert is the
\* oldest).
C2_PoolHoldsMostRecentlyUsed ==
    /\ Cached(straight_diagonals) = MostRecent(used.straight)
    /\ Cached(looped_diagonals) = MostRecent(used.looped)

\* C9: each of the two pools holds at most 16 entries.
C9_PoolsHoldAtMost16 ==
    /\ Len(straight_diagonals) <= 16
    /\ Len(looped_diagonals) <= 16

\* C9 happens: a 17th size was inserted into a pool holding 16 entries.
C9_Witness ==
    /\ Len(straight_diagonals) = 16
    /\ Len(used.straight) = 17
    /\ last.op = "solve_diagonals_straight" /\ ~last.hit

\* C10: the diagonals a pool returns for n points, hit or miss, whatever was
\* solved before, are those computed on a miss (the same call on an empty
\* pool).
C10_HitReturnsWhatMissComputes ==
    /\ last.op = "solve_diagonals_straight" =>
          last.ret = solve_diagonals_straight(<<>>, Zeros(last.n)).out
    /\ last.op = "solve_diagonals_looped" =>
          last.ret = solve_diagonals_looped(<<>>, Zeros(last.n)).out

\* C10 happens: a hit on the oldest entry of the looped pool, behind newer
\* entries of other sizes, after a solve of the other mode.
C10_Witness ==
    /\ last.op = "solve_diagonals_looped" /\ last.hit
    /\ Len(looped_diagonals) >= 3
    /\ last.n = Len(looped_diagonals[Len(looped_diagonals)])
    /\ straight_diagonals # <<>>

-----------------------------------------------------------------------------
(* Claims about solving, checked under Spec.  m_dirty is false exactly from *)
(* the return of a solve() that solved to the next call that changes a      *)
(* point, a coefficient, an extent, the size or the dimension.              *)

Members == {m_splines[n] : n \in 1..Dimension}

AllIdentical(sp) == \A i \in 0..(Size(sp) - 1) : A(sp, i) = A(sp, 0)

Flat(pt) == pt.b = Zero /\ pt.c = Zero /\ pt.d = Zero

\* C3: after a solve of a spline of n >= 3 points that all hold the value of
\* the first, every point, point 0 included, has b = c = d = 0, whatever was
\* stored before, and evaluate returns the common value for every t in both
\* loop modes.
C3_IdenticalPointsSolveFlat ==
    ~m_dirty =>
        \A sp \in Members :
            (Size(sp) >= 3 /\ AllIdentical(sp)) =>
                /\ \A i \in 0..(Size(sp) - 1) : Flat(At(sp.m_points, i))
                /\ \A t \in EvalTs, lp \in BOOLEAN :
                      evaluate(sp, t, lp) = A(sp, 0)

\* C4: whatever calls were made, all member splines have the same point
\* count.
C4_MembersHaveEqualPointCount ==
    \A sp, sq \in Members : Size(sp) = Size(sq)

\* C5: solving a spline of 0 points accesses no control point (no index
\* outside 0..n-1), leaves it empty, and evaluate afterwards returns 0.
C5_EmptySolveAccessesNoPoint ==
    /\ ~oob
    /\ ~m_dirty =>
          \A sp \in Members :
              Size(sp) = 0 => \A t \in EvalTs : evaluate(sp, t, loop) = Zero

\* The derivative at the end (f = 1) of the segment before knot k, and
\* evaluate_derivative at knot k (f = 0 of segment k).
DerivativeBefore(sp, k) ==
    cubic_derivative_at(At(sp.m_points, (k + Size(sp) - 1) % Size(sp)), One)

DerivativeAt(sp, k, lp) == evaluate_derivative(sp, F(k), lp)

\* The knots C7 is about: all of them in looped mode, the interior ones in
\* open mode.
Knots(sp, lp) ==
    IF lp THEN 0..(Size(sp) - 1) ELSE 1..(Size(sp) - 2)

\* C7: after a solve, evaluate_derivative is continuous at every knot of a
\* looped spline of n >= 2 points and at every interior knot of an open
\* spline: b + 2c + 3d of the point before equals b of the point.
C7_DerivativeContinuousFromTwoPoints ==
    ~m_dirty =>
        \A sp \in Members :
            Size(sp) >= 2 =>
                \A k \in Knots(sp, loop) :
                    DerivativeBefore(sp, k) = DerivativeAt(sp, k, loop)

\* Where the derivative is continuous: after a solve of a spline of n >= 3
\* points, at every knot (looped) or interior knot (open) when the points
\* are not all identical, and at those knots k >= 2 when they are (point 0
\* then keeps the coefficients stored before).
DerivativeContinuousWhereSolved ==
    ~m_dirty =>
        \A sp \in Members :
            Size(sp) >= 3 =>
                \A k \in Knots(sp, loop) :
                    (~AllIdentical(sp) \/ k >= 2) =>
                        DerivativeBefore(sp, k) = DerivativeAt(sp, k, loop)

\* What solve_looped or solve_straight makes of a member, computed without
\* the pools of the process.
Solved(sp, lp) ==
    IF lp THEN solve_looped(sp, <<>>).sp ELSE solve_straight(sp, <<>>).sp

\* C8: solve() changes nothing (no coefficient, no pool, no flag) when dirty
\* is false; when dirty is true and it returns, every member is solved with
\* solve_looped if loop is set and solve_straight otherwise, loop is kept
\* and dirty is false, so that a second solve() is a no-op.
C8_SolveOnlyWhenDirty ==
    [][Solve =>
         IF ~m_dirty
         THEN UNCHANGED <<m_splines, loop, m_dirty, straight_diagonals,
                          looped_diagonals, used, oob, halted>>
         ELSE ~halted' =>
                /\ ~m_dirty' /\ loop' = loop
                /\ Len(m_splines') = Dimension
                /\ \A n \in 1..Dimension :
                      m_splines'[n] = Solved(m_splines[n], loop)]_vars

\* C8 happens: a solve() of a dirty bundle has run the full solve of a
\* member in the mode of the loop flag (the other mode gives other
\* coefficients), and the bundle is no longer dirty.
C8_Witness ==
    /\ ~m_dirty
    /\ \E sp \in Members :
          /\ Size(sp) = 3 /\ ~AllIdentical(sp)
          /\ sp = Solved(sp, loop)
          /\ sp # Solved(sp, ~loop)
    /\ straight_diagonals \o looped_diagonals # <<>>

\* The diagonals solve_straight gets from the cache for n points.
StraightDiagonals(n) == solve_diagonals_straight(<<>>, Zeros(n)).out

\* The members C13 and C14 are about: n >= 3 points, not all identical,
\* holding the coefficients solve_straight stores.
StraightSolved(sp) ==
    Size(sp) >= 3 /\ ~AllIdentical(sp) /\ sp = Solved(sp, FALSE)

\* The right-hand side of C13's system.
Rhs(sp, i) ==
    IF i = 0 THEN FMul(F(3), FSub(A(sp, 1), A(sp, 0)))
    ELSE IF i = Size(sp) - 1 THEN FMul(F(3), FSub(A(sp, i), A(sp, i - 1)))
    ELSE FMul(F(3), FSub(A(sp, i + 1), A(sp, i - 1)))

\* m[i] of C13: the b stored in point i.
Tangent(sp, i) == At(sp.m_points, i).b

\* The rows of C13's system.
SolvesSystem(sp) ==
    LET n == Size(sp)
    IN  /\ FAdd(FMul(F(2), Tangent(sp, 0)), Tangent(sp, 1)) = Rhs(sp, 0)
        /\ \A i \in 1..(n - 2) :
              FAdd(FAdd(Tangent(sp, i - 1), FMul(F(4), Tangent(sp, i))),
                   Tangent(sp, i + 1)) = Rhs(sp, i)
        /\ FAdd(Tangent(sp, n - 2), FMul(F(2), Tangent(sp, n - 1)))
              = Rhs(sp, n - 1)

\* C13: for an open spline of n >= 3 points, not all identical, with
\* spatial extent 0, the b that solve_straight stores solve the system
\* 2*m[0] + m[1] = rhs[0], m[i-1] + 4*m[i] + m[i+1] = rhs[i] for
\* 1 <= i <= n-2, m[n-2] + 2*m[n-1] = rhs[n-1].
C13_TangentsSolveTheSystem ==
    (~halted /\ ~m_dirty /\ ~loop) =>
        \A sp \in Members :
            (StraightSolved(sp) /\ sp.m_spatial_extent = Zero) =>
                SolvesSystem(sp)

\* The elimination C14 describes: step i from 1 to n-2 updates element i+1
\* from element i, rhs[i+1] -= rhs[i] / d[i].
RECURSIVE EliminateForward(_, _, _)
EliminateForward(r, d, i) ==
    IF i <= Len(r) - 2
    THEN EliminateForward(
             Put(r, i + 1, FSub(At(r, i + 1), FDiv(At(r, i), At(d, i)))),
             d, i + 1)
    ELSE r

\* C14: solve_straight eliminates the right-hand side with the loop
\* structure of the diagonal elimination: after rhs[1] -= rhs[0]/2, each
\* step i from 1 to n-2 does rhs[i+1] -= rhs[i]/d[i], so that every entry
\* from 1 to n-1 is eliminated against its predecessor.
C14_RhsEliminationMirrorsDiagonals ==
    (~halted /\ ~m_dirty /\ ~loop) =>
        \A sp \in Members :
            StraightSolved(sp) =>
                straight_eliminate(straight_rhs(sp),
                                   StraightDiagonals(Size(sp)))
                  = EliminateForward(
                        Put(straight_rhs(sp), 1,
                            FSub(At(straight_rhs(sp), 1),
                                 FDiv(At(straight_rhs(sp), 0), F(2)))),
                        StraightDiagonals(Size(sp)), 1)

\* C15: whenever the bundle (of a running process) is not dirty, every
\* member holds the
\* coefficients a solve in the mode of the current loop flag produces from
\* the current points and extents (every change of an input of the solve,
\* the loop flag included, leaves the bundle dirty).
C15_CleanMeansSolvedForLoopFlag ==
    (~halted /\ ~m_dirty) => \A sp \in Members : sp = Solved(sp, loop)

-----------------------------------------------------------------------------
(* Claims about the arguments of the bundle's operations, checked under     *)
(* SpecArgs                                                                 *)

\* The call was refused by a failed ASSERT_M and changed no member.
Aborted == halted' /\ m_splines' = m_splines

\* The call was refused by an ASSERT_M or by an error returned to the script
\* and changed no member.
Refused ==
    /\ halted' \/ (last' # last /\ last'.op = "luaL_error")
    /\ m_splines' = m_splines

\* C11: a bundle operation given a point index outside 0..size()-1
\* (set_point, set_coefficients, get_coefficients), a dimension index
\* outside 0..dimension()-1 (set_spatial_extent, get_spatial_extent) or a
\* vector whose length differs from dimension() is refused with an error
\* and leaves every member's points, coefficients and extent unchanged.
C11_BadArgumentsRefused ==
    [][/\ \A i \in Indices, l \in Lengths :
            (~(i < BundleSize) \/ l # Dimension) =>
                /\ \A x \in Values :
                      /\ SetPoint(i, VecN(l, x)) => Aborted
                      /\ LuaSetPoint(i, VecN(l, x)) => Refused
                /\ \A k \in CoefTriples :
                      /\ SetCoefficients(i, VecN(l, k[1]), VecN(l, k[2]),
                                         VecN(l, k[3])) => Aborted
                      /\ LuaSetCoefficients(i, VecN(l, k[1]), VecN(l, k[2]),
                                            VecN(l, k[3])) => Refused
                /\ GetCoefficients(i, Zeros(l), Zeros(l), Zeros(l)) => Aborted
       /\ \A i \in 0..MaxDim :
            ~(i < Dimension) =>
                /\ \A extent \in Extents :
                      /\ SetSpatialExtent(i, extent) => Aborted
                      /\ LuaSetSpatialExtent(i, extent) => Refused
                /\ GetSpatialExtent(i) => Aborted]_vars

=============================================================================
